---------------------------- MODULE Spec2Model ----------------------------
(***************************************************************************)
(* A model of fanotify-cmdline.c: argument parsing (the +e/-e mask         *)
(* directives), start-up (signalfd, fanotify_init, fanotify_mark), the     *)
(* poll loop with the decoding of the fanotify read buffer, and shutdown.  *)
(*                                                                         *)
(* Strings are sequences of one-character strings.  A 64-bit mask is       *)
(* represented by the set of its set bits, so | is \cup and & ~ is \.      *)
(* argv holds the arguments after the program name, so that argv[k] here   *)
(* is argv[k] of main for k >= 1, and argc = Len(argv) + 1.                *)
(***************************************************************************)
EXTENDS Integers, Sequences, FiniteSets, TLC

(***************************************************************************)
(* Bounds of the model.                                                    *)
(***************************************************************************)
MaxPairs == 3      \* directive pairs on a command line of SpecArgs
MaxPaths == 2      \* directory arguments on a command line
MaxRecs == 2       \* records laid out in one fanotify read buffer
MaxBytes == 4      \* bytes in a /proc/PID/cmdline that is read

(***************************************************************************)
(* Characters and strings.                                                 *)
(***************************************************************************)
UpperChars == <<"A","B","C","D","E","F","G","H","I","J","K","L","M",
                "N","O","P","Q","R","S","T","U","V","W","X","Y","Z">>
LowerChars == <<"a","b","c","d","e","f","g","h","i","j","k","l","m",
                "n","o","p","q","r","s","t","u","v","w","x","y","z">>

\* tolower(3), as strcasecmp and strcasestr apply it to each character
ToLower(c) ==
    IF \E k \in 1..Len(UpperChars) : UpperChars[k] = c
    THEN LowerChars[CHOOSE k \in 1..Len(UpperChars) : UpperChars[k] = c]
    ELSE c

\* strcmp(a, b) == 0
StrEq(a, b) == a = b

\* strcasecmp(a, b) == 0
StrCaseEq(a, b) ==
    /\ Len(a) = Len(b)
    /\ \A k \in 1..Len(a) : ToLower(a[k]) = ToLower(b[k])

\* does needle occur in hay at (1-based) position p, ignoring case
MatchAt(hay, needle, p) ==
    /\ p + Len(needle) - 1 <= Len(hay)
    /\ \A k \in 1..Len(needle) : ToLower(hay[p + k - 1]) = ToLower(needle[k])

\* strcasestr(hay, needle): the position of the first occurrence, 0 for NULL
StrCaseStr(hay, needle) ==
    IF \E p \in 1..(Len(hay) + 1) : MatchAt(hay, needle, p)
    THEN CHOOSE p \in 1..(Len(hay) + 1) :
            /\ MatchAt(hay, needle, p)
            /\ \A q \in 1..(p - 1) : ~MatchAt(hay, needle, q)
    ELSE 0

\* the string that starts n characters into s (pointer arithmetic s + n)
StrFrom(s, n) == SubSeq(s, n + 1, Len(s))

PlusE == <<"+","e">>
MinusE == <<"-","e">>
Prefix == <<"F","A","N","_">>

(***************************************************************************)
(* The event bits of <sys/fanotify.h> that the program names.              *)
(***************************************************************************)
FAN_ACCESS == 1
FAN_MODIFY == 2
FAN_CLOSE_WRITE == 8
FAN_CLOSE_NOWRITE == 16
FAN_OPEN == 32
FAN_EVENT_ON_CHILD == 134217728
FAN_ONDIR == 1073741824

\* the initial value of the global event_mask
BaseMask == {FAN_ACCESS, FAN_MODIFY, FAN_CLOSE_WRITE, FAN_CLOSE_NOWRITE,
             FAN_OPEN, FAN_ONDIR, FAN_EVENT_ON_CHILD}

\* the table fanmask[] of getmask, without its NULL terminator
fanmask == <<
    [name |-> <<"A","C","C","E","S","S">>,                 value |-> FAN_ACCESS],
    [name |-> <<"M","O","D","I","F","Y">>,                 value |-> FAN_MODIFY],
    [name |-> <<"C","L","O","S","E","_","W","R","I","T","E">>,
                                                           value |-> FAN_CLOSE_WRITE],
    [name |-> <<"C","L","O","S","E","_","N","O","W","R","I","T","E">>,
                                                           value |-> FAN_CLOSE_NOWRITE],
    [name |-> <<"O","P","E","N">>,                         value |-> FAN_OPEN],
    [name |-> <<"O","N","D","I","R">>,                     value |-> FAN_ONDIR],
    [name |-> <<"E","V","E","N","T","_","O","N","_","C","H","I","L","D">>,
                                                           value |-> FAN_EVENT_ON_CHILD] >>

\* the string the table is searched for: past the first "FAN_" found anywhere
\* in name (strcasestr), or name itself when there is none
GetmaskBody(name) ==
    LET at == StrCaseStr(name, Prefix)
    IN  IF at = 0 THEN name ELSE StrFrom(name, at - 1 + Len(Prefix))

\* getmask(name): the bits of the first table entry whose name equals the
\* body ignoring case; {} stands for the return value 0
getmask(name) ==
    LET body == GetmaskBody(name)
        hits == {k \in 1..Len(fanmask) : StrCaseEq(body, fanmask[k].name)}
    IN  IF hits = {} THEN {}
        ELSE {fanmask[CHOOSE k \in hits : \A h \in hits : k <= h].value}


(***************************************************************************)
(* Command lines.                                                          *)
(***************************************************************************)
Dir1 == <<"/","a">>
Dir2 == <<"/","b">>
Open == <<"O","P","E","N">>
Access == <<"A","C","C","E","S","S">>

\* names tried after +e / -e: table names in either case, with and without
\* the prefix, and names that are not table names
AllNames ==
    { pre \o fan \o body :
        pre \in {<< >>, <<"x">>},
        fan \in {<< >>, Prefix, <<"f","a","n","_">>},
        body \in {fanmask[k].name : k \in 1..Len(fanmask)}
                 \cup {<<"o","p","e","n">>, <<"O","P","E","N","X">>,
                       <<"O","P","E">>, << >>} }
    \cup {Prefix \o Prefix \o Open, Dir1, PlusE}

\* the names used where several directives follow one another
FewNames == {Open, Prefix \o Access, <<"o","p","e","n">>, <<"n","o">>}

RECURSIVE PairSeqs(_, _)
\* the sequences of at most n directive pairs (+e|-e) NAME, NAME in names
PairSeqs(names, n) ==
    IF n = 0 THEN {<< >>}
    ELSE LET shorter == PairSeqs(names, n - 1)
         IN  shorter \cup
             { s \o <<f, nm>> : s \in shorter, f \in {PlusE, MinusE}, nm \in names }

RECURSIVE DirSeqs(_)
\* <<Dir1>>, <<Dir1, Dir2>>, <<Dir1, Dir2, Dir1>>, ... up to n directories
DirSeqs(n) ==
    IF n = 0 THEN {<< >>}
    ELSE DirSeqs(n - 1) \cup
         { [k \in 1..n |-> IF k % 2 = 1 THEN Dir1 ELSE Dir2] }

\* what may follow the directive pairs: directories, or a dangling +e / -e
Tails == DirSeqs(MaxPaths) \cup {<<PlusE>>, <<MinusE>>}

\* the command lines of SpecArgs
ArgvArgs ==
    { p \o t : p \in PairSeqs(FewNames, MaxPairs), t \in Tails }
    \cup { <<f, nm>> \o t : f \in {PlusE, MinusE}, nm \in AllNames,
                            t \in {<< >>, <<Dir1>>} }

\* the command lines of Spec
ArgvRun ==
    { p \o t : p \in PairSeqs({Open}, 2) \cup {<<PlusE, Dir1>>, <<MinusE, Dir1>>},
                t \in Tails }

VARIABLES
    argv,          \* main's argv[1 .. argc-1]
    proc_cmdline,  \* the bytes of /proc/PID/cmdline of the process of the events
    pc,            \* where main is
    i,             \* main's i
    event_mask,    \* the global event_mask
    mask_hist,     \* event_mask after line 272 and after each directive pair
    signal_fd,     \* main's signal_fd, -1 while unset
    fanotify_fd,   \* main's fanotify_fd, -1 while unset
    open_fds,      \* the descriptors open in the process
    blocked,       \* SIGINT and SIGTERM are blocked (sigprocmask succeeded)
    pending,       \* blocked signals raised and not yet read
    early,         \* those raised before the loop, until the loop goes on after a read
    n_monitors,    \* the global n_monitors
    monitors,      \* the global monitors[], the paths strdup'ed so far
    mon_i,         \* the i of initialize_fanotify and of shutdown_fanotify
    marks,         \* the kernel's marks: path -> mask
    revents,       \* fds[].revents & POLLIN after the last poll
    buffer,        \* the records laid out in the read buffer
    length,        \* main's length
    bytes_read,    \* what the read of line 370 returned
    metadata,      \* main's metadata, as an offset into buffer
    yielded,       \* offsets of the records event_process was called with
    closes,        \* close() calls made on each yielded record's fd
    report,        \* the report of the record being processed
    last_read,     \* outcome of the last read of each channel
    log,           \* the life-cycle calls made, in order
    exit_status    \* the status the process ended with, "none" while it runs

vars == <<argv, proc_cmdline, pc, i, event_mask, mask_hist, signal_fd, fanotify_fd, open_fds,
          blocked, pending, early, n_monitors, monitors, mon_i, marks, revents,
          buffer, length, bytes_read, metadata, yielded, closes, report, last_read, log,
          exit_status>>

env == <<argv, proc_cmdline>>
parse_vars == <<i, event_mask, mask_hist>>
chan_vars == <<signal_fd, fanotify_fd, open_fds, blocked>>
mon_vars == <<n_monitors, monitors, mon_i, marks>>
loop_vars == <<revents, buffer, length, bytes_read, metadata, yielded, closes, report,
               last_read>>

argc == Len(argv) + 1

SIGINT == 2
SIGTERM == 15

\* the globals, main's locals and the process as they are before main runs
Fresh ==
    /\ i = 0
    /\ event_mask = BaseMask
    /\ mask_hist = << >>
    /\ signal_fd = -1
    /\ fanotify_fd = -1
    /\ open_fds = {0, 1, 2}
    /\ blocked = FALSE
    /\ pending = {}
    /\ early = {}
    /\ n_monitors = 0
    /\ monitors = << >>
    /\ mon_i = 0
    /\ marks = << >>
    /\ revents = [signal |-> FALSE, fanotify |-> FALSE]
    /\ buffer = << >>
    /\ length = 0
    /\ bytes_read = 0
    /\ metadata = 0
    /\ yielded = << >>
    /\ closes = << >>
    /\ report = [printed |-> FALSE]
    /\ last_read = [signal |-> "none", fanotify |-> "none", signo |-> 0]
    /\ log = << >>
    /\ exit_status = "none"

\* one entry of log
Ev(ev, k, mask) == [ev |-> ev, k |-> k, mask |-> mask, path |-> << >>]

\* the entry of log for a fanotify_mark call on path
EvMark(ev, k, mask, path) == [ev |-> ev, k |-> k, mask |-> mask, path |-> path]

NUL == "\\0"

\* the state of the process before main runs, for a command line in args
InitWith(args) ==
    /\ argv \in args
    /\ proc_cmdline = <<"a", NUL>>
    /\ pc = "start"
    /\ Fresh

Init == InitWith(ArgvRun)
InitArgs == InitWith(ArgvArgs)

\* exit(EXIT_FAILURE) after the two usage lines
UsageExit ==
    /\ pc' = "exited"
    /\ exit_status' = "EXIT_FAILURE"
    /\ log' = Append(log, Ev("usage", -1, {}))

\* exit(EXIT_FAILURE) after the message what
FailExit(what) ==
    /\ pc' = "exited"
    /\ exit_status' = "EXIT_FAILURE"
    /\ log' = Append(log, Ev(what, -1, {}))

(***************************************************************************)
(* main, lines 265-310: the arguments.                                     *)
(***************************************************************************)
\* line 265
TooFewArgs == argc < 2

Start ==
    /\ pc = "start"
    /\ IF TooFewArgs
       THEN UsageExit
       ELSE pc' = "reset" /\ UNCHANGED <<log, exit_status>>
    /\ UNCHANGED <<env, parse_vars, chan_vars, pending, early, mon_vars, loop_vars>>

\* the reset made whatever the first argument is
ResetMask_Always(m) == {}

\* line 272
ResetMask(m) == IF StrEq(argv[1], PlusE) THEN {} ELSE m

Reset ==
    /\ pc = "reset"
    /\ event_mask' = ResetMask(event_mask)
    /\ mask_hist' = <<event_mask'>>
    /\ i' = 1
    /\ pc' = "parse"
    /\ UNCHANGED <<env, chan_vars, pending, early, mon_vars, loop_vars, log, exit_status>>

\* = in place of |=
AddMask_Assign(m, mask) == mask

\* line 282
AddMask(m, mask) == m \cup mask

\* &= mask in place of &= ~mask
RemoveMask_Keep(m, mask) == m \cap mask

\* line 294
RemoveMask(m, mask) == m \ mask

\* lines 275-283: +e NAME
ParseAdd ==
    /\ pc = "parse"
    /\ i < argc
    /\ StrEq(argv[i], PlusE)
    /\ i + 1 < argc
    /\ LET mask == getmask(argv[i + 1])
       IN  event_mask' = IF mask = {} THEN event_mask ELSE AddMask(event_mask, mask)
    /\ mask_hist' = Append(mask_hist, event_mask')
    /\ i' = i + 2
    /\ UNCHANGED <<env, pc, chan_vars, pending, early, mon_vars, loop_vars, log, exit_status>>

\* lines 287-295: -e NAME
ParseRemove ==
    /\ pc = "parse"
    /\ i < argc
    /\ ~StrEq(argv[i], PlusE)
    /\ StrEq(argv[i], MinusE)
    /\ i + 1 < argc
    /\ LET mask == getmask(argv[i + 1])
       IN  event_mask' = IF mask = {} THEN event_mask ELSE RemoveMask(event_mask, mask)
    /\ mask_hist' = Append(mask_hist, event_mask')
    /\ i' = i + 2
    /\ UNCHANGED <<env, pc, chan_vars, pending, early, mon_vars, loop_vars, log, exit_status>>

\* lines 284-286 and 296-298: +e or -e is the last argument; ++i, then break
ParseDangling ==
    /\ pc = "parse"
    /\ i < argc
    /\ StrEq(argv[i], PlusE) \/ StrEq(argv[i], MinusE)
    /\ ~(i + 1 < argc)
    /\ i' = i + 1
    /\ pc' = "check"
    /\ UNCHANGED <<env, event_mask, mask_hist, chan_vars, pending, early, mon_vars,
                   loop_vars, log, exit_status>>

\* lines 274 and 299-301: the loop ends, or meets the first directory
ParseEnd ==
    /\ pc = "parse"
    /\ \/ ~(i < argc)
       \/ i < argc /\ ~StrEq(argv[i], PlusE) /\ ~StrEq(argv[i], MinusE)
    /\ pc' = "check"
    /\ UNCHANGED <<env, parse_vars, chan_vars, pending, early, mon_vars, loop_vars,
                   log, exit_status>>

\* < in place of <=
NoDirectory_OffByOne == argc < i

\* line 306
NoDirectory == argc <= i

UsageCheck ==
    /\ pc = "check"
    /\ IF NoDirectory
       THEN UsageExit
       ELSE pc' = "init_signals" /\ UNCHANGED <<log, exit_status>>
    /\ UNCHANGED <<env, parse_vars, chan_vars, pending, early, mon_vars, loop_vars>>

NextArgs ==
    \/ Start
    \/ Reset
    \/ ParseAdd
    \/ ParseRemove
    \/ ParseDangling
    \/ ParseEnd
    \/ UsageCheck

SpecArgs == InitArgs /\ [][NextArgs]_vars

(***************************************************************************)
(* Descriptors and signals.                                                *)
(***************************************************************************)
\* the descriptor open(2), signalfd(2), fanotify_init(2) and the kernel's
\* event delivery return: the lowest one not open
LowestFree(fds) ==
    CHOOSE n \in 0..Cardinality(fds) : n \notin fds /\ \A m \in 0..(n - 1) : m \in fds

\* close(fd)
Close(fds, fd) == fds \ {fd}

\* the sigmask of initialize_signals
SigMask == {SIGINT, SIGTERM}

Running == pc \in {"poll", "read_signal", "read_fanotify", "decode",
                   "event_process", "after_process"}

Ended == pc \in {"exited", "killed"}

\* SIGINT or SIGTERM is sent to the process: it stays pending once
\* sigprocmask has blocked it, and kills the process before that
SignalArrives ==
    /\ ~Ended
    /\ \E s \in SigMask :
          IF blocked
          THEN /\ s \notin pending
               /\ pending' = pending \cup {s}
               /\ early' = IF pc \in {"init_fanotify", "mark"}
                            THEN early \cup {s} ELSE early
               /\ UNCHANGED pc
          ELSE /\ pc' = "killed"
               /\ UNCHANGED <<pending, early>>
    /\ UNCHANGED <<env, parse_vars, chan_vars, mon_vars, loop_vars, log, exit_status>>

(***************************************************************************)
(* main, lines 312-329: start-up.                                          *)
(***************************************************************************)
\* initialize_signals without the call of sigprocmask
BlocksSignals_Never(outcome) == FALSE

\* lines 207-212: the signals are blocked unless sigprocmask fails
BlocksSignals(outcome) == outcome # "sigprocmask_failed"

\* lines 313-316 with initialize_signals: sigprocmask, then signalfd
InitSignals ==
    /\ pc = "init_signals"
    /\ \E outcome \in {"ok", "sigprocmask_failed", "signalfd_failed"} :
          /\ blocked' = BlocksSignals(outcome)
          /\ IF outcome = "ok"
             THEN /\ signal_fd' = LowestFree(open_fds)
                  /\ open_fds' = open_fds \cup {signal_fd'}
                  /\ log' = Append(log, Ev("signal_open", -1, {}))
                  /\ pc' = "init_fanotify"
                  /\ UNCHANGED exit_status
             ELSE /\ FailExit(outcome)
                  /\ UNCHANGED <<signal_fd, open_fds>>
    /\ UNCHANGED <<env, parse_vars, fanotify_fd, pending, early, mon_vars, loop_vars>>

\* lines 319-320 and 159-169: --i, fanotify_init, n_monitors = argc - 1 where
\* the callee's argc is main's argc - i
InitFanotify ==
    /\ pc = "init_fanotify"
    /\ i' = i - 1
    /\ \E outcome \in {"ok", "fanotify_init_failed"} :
          IF outcome = "ok"
          THEN /\ fanotify_fd' = LowestFree(open_fds)
               /\ open_fds' = open_fds \cup {fanotify_fd'}
               /\ n_monitors' = (argc - i') - 1
               /\ mon_i' = 0
               /\ log' = Append(log, Ev("fanotify_open", -1, {}))
               /\ pc' = "mark"
               /\ UNCHANGED exit_status
          ELSE /\ FailExit(outcome)
               /\ UNCHANGED <<fanotify_fd, open_fds, n_monitors, mon_i>>
    /\ UNCHANGED <<env, event_mask, mask_hist, signal_fd, blocked, pending, early,
                   monitors, marks, loop_vars>>

\* the loop of initialize_fanotify stopping one monitor early
MoreToMark_SkipLast == mon_i < n_monitors - 1

\* line 172: i < n_monitors
MoreToMark == mon_i < n_monitors

\* the loop of shutdown_fanotify stopping one monitor early
MoreToUnmark_SkipLast == mon_i < n_monitors - 1

\* line 141: i < n_monitors
MoreToUnmark == mon_i < n_monitors

\* line 177: the mask of FAN_MARK_ADD
MarkMask == event_mask

\* FAN_MARK_REMOVE with the default mask
UnmarkMask_Default == BaseMask

\* line 145: the mask of FAN_MARK_REMOVE
UnmarkMask == event_mask

\* line 173: argv[i + 1] of initialize_fanotify, whose argv is &argv[i] of main
MonitorArg(k) == argv[i + k + 1]

\* the marks after FAN_MARK_ADD of mask on path has succeeded
MarkAdd(ms, path, mask) ==
    IF \E k \in 1..Len(ms) : ms[k].path = path
    THEN [k \in 1..Len(ms) |->
            IF ms[k].path = path
            THEN [path |-> path, mask |-> ms[k].mask \cup mask]
            ELSE ms[k]]
    ELSE Append(ms, [path |-> path, mask |-> mask])

\* the marks after FAN_MARK_REMOVE of mask on path: a mark left without
\* bits is destroyed
MarkRemove(ms, path, mask) ==
    SelectSeq([k \in 1..Len(ms) |->
                  IF ms[k].path = path
                  THEN [path |-> path, mask |-> ms[k].mask \ mask]
                  ELSE ms[k]],
              LAMBDA m : m.mask # {})

\* a failed mark sent to the teardown of the marks added so far
AfterMarkFailure_Unwinds == "shutdown"

\* lines 180-184 and 320-323: return -1, then exit(EXIT_FAILURE)
AfterMarkFailure == "exited"

\* lines 172-189: one turn of the loop that adds the marks; its end is the
\* return to main and lines 326-329
MarkStep ==
    /\ pc = "mark"
    /\ IF MoreToMark
       THEN /\ monitors' = Append(monitors, MonitorArg(mon_i))
            /\ \E ok \in BOOLEAN :
                  IF ok
                  THEN /\ marks' = MarkAdd(marks, monitors'[mon_i + 1], MarkMask)
                       /\ log' = Append(log, EvMark("mark", mon_i, MarkMask,
                                                     monitors'[mon_i + 1]))
                       /\ mon_i' = mon_i + 1
                       /\ UNCHANGED <<pc, exit_status>>
                  ELSE /\ pc' = AfterMarkFailure
                       /\ exit_status' = "EXIT_FAILURE"
                       /\ log' = Append(log, Ev("mark_failed", -1, {}))
                       /\ UNCHANGED <<marks, mon_i>>
       ELSE /\ pc' = "poll"
            /\ log' = Append(log, Ev("running", -1, {}))
            /\ UNCHANGED <<monitors, marks, mon_i, exit_status>>
    /\ UNCHANGED <<env, parse_vars, chan_vars, pending, early, n_monitors, loop_vars>>

(***************************************************************************)
(* The fanotify read buffer.                                               *)
(***************************************************************************)
\* sizeof(struct fanotify_event_metadata)
FAN_EVENT_METADATA_LEN == 24
FANOTIFY_BUFFER_SIZE == 8192
FAN_NOFD == -1

RECURSIVE SumLen(_, _)
\* the bytes taken by the first n records of recs
SumLen(recs, n) == IF n = 0 THEN 0 ELSE SumLen(recs, n - 1) + recs[n].event_len

\* the record whose header starts at offset off
RecordAt(recs, off) ==
    recs[CHOOSE k \in 1..Len(recs) : SumLen(recs, k - 1) = off]

\* metadata->event_len, metadata->fd, metadata->pid and metadata->mask
EventLen == RecordAt(buffer, metadata).event_len
EventFd == RecordAt(buffer, metadata).fd
EventPidOf == RecordAt(buffer, metadata).pid
EventMask == RecordAt(buffer, metadata).mask

\* FAN_EVENT_OK without the test of event_len against what is left
FAN_EVENT_OK_NoUpperBound ==
    /\ length >= FAN_EVENT_METADATA_LEN
    /\ EventLen >= FAN_EVENT_METADATA_LEN

\* FAN_EVENT_OK(metadata, length) of <sys/fanotify.h>, line 376
FAN_EVENT_OK ==
    /\ length >= FAN_EVENT_METADATA_LEN
    /\ EventLen >= FAN_EVENT_METADATA_LEN
    /\ EventLen <= length

\* the mask of an event reported: a file written and closed, or, for the
\* record without a descriptor (the queue overflowed), no bit the program names
EventMaskOf(hasfd) == IF hasfd THEN {FAN_MODIFY, FAN_CLOSE_WRITE} ELSE {}

\* the process an event is reported for
EventPid == 100

\* the sequences of at most n whole records the kernel copies out, each with
\* a descriptor of its own or with FAN_NOFD
RECURSIVE WholeShapes(_)
WholeShapes(n) ==
    IF n = 0 THEN {<< >>}
    ELSE LET shorter == WholeShapes(n - 1)
         IN  shorter \cup
             { s \o <<[event_len |-> l, hasfd |-> h, mask |-> EventMaskOf(h)]>> :
                  s \in shorter, l \in {FAN_EVENT_METADATA_LEN, 32}, h \in BOOLEAN }

\* a damaged last record: its declared length and the bytes of it that were
\* read; either the length is below the header size or it exceeds those bytes
BadTails ==
    { t \in [event_len : {16, 24, 32}, got : {8, 16, 24}] :
         t.event_len < FAN_EVENT_METADATA_LEN \/ t.event_len > t.got }

RECURSIVE Deliver(_, _)
\* the records of shape as the kernel writes them, each descriptor the
\* lowest one free when its record is written
Deliver(shape, fds) ==
    IF shape = << >> THEN << >>
    ELSE LET fd == IF Head(shape).hasfd THEN LowestFree(fds) ELSE FAN_NOFD
         IN  <<[event_len |-> Head(shape).event_len, fd |-> fd,
                pid |-> EventPid, mask |-> Head(shape).mask]>>
             \o Deliver(Tail(shape), fds \cup ({fd} \ {FAN_NOFD}))

\* the descriptors held by the records recs
RecordFds(recs) == {recs[k].fd : k \in 1..Len(recs)} \ {FAN_NOFD}

(***************************************************************************)
(* main, lines 332-384: the loop.                                          *)
(***************************************************************************)
\* the fanotify descriptor looked at first
FirstChannel_FanotifyFirst(rev) ==
    IF rev.fanotify THEN "read_fanotify" ELSE "read_signal"

\* lines 342 and 364: the signal descriptor is looked at first
FirstChannel(rev) == IF rev.signal THEN "read_signal" ELSE "read_fanotify"

\* lines 334-342 and 364: poll returns once a channel is readable
Poll ==
    /\ pc = "poll"
    /\ \/ /\ FailExit("poll_failed")
          /\ UNCHANGED revents
       \/ /\ \E fan \in BOOLEAN :
                /\ revents' = [signal |-> pending # {}, fanotify |-> fan]
                /\ revents'.signal \/ revents'.fanotify
          /\ pc' = FirstChannel(revents')
          /\ UNCHANGED <<log, exit_status>>
    /\ UNCHANGED <<env, parse_vars, chan_vars, pending, early, mon_vars, buffer, length,
                   bytes_read, metadata, yielded, closes, report, last_read>>

\* back to poll after a signal that does not end the loop
SecondChannel_Skip(rev) == "poll"

\* line 364, reached from line 359: the fanotify descriptor is looked at
\* after a signal that does not end the loop
SecondChannel(rev) == IF rev.fanotify THEN "read_fanotify" ELSE "poll"

\* SIGTERM left out of the test
IsTermination_OnlySIGINT(signo) == signo = SIGINT

\* lines 354-355
IsTermination(signo) == signo = SIGINT \/ signo = SIGTERM

\* lines 345-361: the read of the signal descriptor, which returns one of
\* the signals in readable; last_read.signal tells which message, if any,
\* went to stderr: "error" that of line 349, "unexpected" that of line 360
ReadSignalFrom(readable) ==
    /\ pc = "read_signal"
    /\ \/ /\ last_read' = [last_read EXCEPT !.signal = "error", !.signo = 0]
          /\ FailExit("signal_read_failed")
          /\ UNCHANGED <<pending, early, mon_i>>
       \/ /\ \E signo \in readable :
                /\ pending' = pending \ {signo}
                /\ last_read' = [last_read EXCEPT
                                    !.signal = IF IsTermination(signo) THEN "ok"
                                               ELSE "unexpected",
                                    !.signo = signo]
                /\ IF IsTermination(signo)
                   THEN /\ pc' = "shutdown"
                        /\ mon_i' = 0
                        /\ log' = Append(log, Ev("termination", signo, {}))
                        /\ UNCHANGED early
                   ELSE /\ pc' = SecondChannel(revents)
                        /\ early' = {}
                        /\ UNCHANGED <<mon_i, log>>
          /\ UNCHANGED exit_status
    /\ UNCHANGED <<env, parse_vars, chan_vars, n_monitors, monitors, marks,
                   revents, buffer, length, bytes_read, metadata, yielded, closes,
                   report>>

\* signalfd hands out the pending signals of its mask, one per read
ReadSignal == ReadSignalFrom(pending \cap SigMask)

\* line 372: length > 0
GotData(len) == len > 0

\* lines 370-375: the read of the fanotify descriptor
ReadFanotify ==
    /\ pc = "read_fanotify"
    /\ \/ /\ length' = -1
          /\ last_read' = [last_read EXCEPT !.fanotify = "error"]
          /\ UNCHANGED <<buffer, open_fds>>
       \/ /\ \E shape \in WholeShapes(MaxRecs) :
                LET whole == Deliver(shape, open_fds)
                    n == SumLen(whole, Len(whole))
                IN  /\ open_fds' = open_fds \cup RecordFds(whole)
                    /\ \/ /\ buffer' = whole
                          /\ length' = n
                       \/ /\ Len(whole) < MaxRecs
                          /\ \E t \in BadTails :
                                /\ buffer' = Append(whole, [event_len |-> t.event_len,
                                                            fd |-> FAN_NOFD,
                                                            pid |-> 0, mask |-> {}])
                                /\ length' = n + t.got
          /\ length' > 0
          /\ length' <= FANOTIFY_BUFFER_SIZE
          /\ last_read' = [last_read EXCEPT !.fanotify = "ok"]
    /\ bytes_read' = length'
    /\ metadata' = 0
    /\ pc' = IF GotData(length') THEN "decode" ELSE "poll"
    /\ yielded' = << >>
    /\ closes' = << >>
    /\ UNCHANGED <<env, parse_vars, signal_fd, fanotify_fd, blocked, pending, early,
                   mon_vars, revents, report, log, exit_status>>

\* line 376: the loop condition; the block of lines 365-382 is left when it
\* fails, which ends the lifetime of buffer, length and metadata
Decode ==
    /\ pc = "decode"
    /\ IF FAN_EVENT_OK
       THEN /\ pc' = "event_process"
            /\ yielded' = Append(yielded, metadata)
            /\ closes' = Append(closes, 0)
            /\ UNCHANGED <<buffer, length, bytes_read, metadata>>
       ELSE /\ pc' = "poll"
            /\ buffer' = << >>
            /\ length' = 0
            /\ bytes_read' = 0
            /\ metadata' = 0
            /\ yielded' = << >>
            /\ closes' = << >>
    /\ UNCHANGED <<env, parse_vars, chan_vars, pending, early, mon_vars, revents, report,
                   last_read, log, exit_status>>

RECURSIVE ByteSeqs(_)
\* the byte sequences of at most n bytes, each an argument character or NUL
ByteSeqs(n) ==
    IF n = 0 THEN {<< >>}
    ELSE LET shorter == ByteSeqs(n - 1)
         IN  shorter \cup {b \o <<c>> : b \in shorter, c \in {"a", NUL}}

\* line 91: the descriptor cannot be looked up
BadFd(fd) == fd <= 0

\* what a lookup function returns: NULL, or the buffer it filled
Null == [null |-> TRUE, text |-> << >>]
Filled(text) == [null |-> FALSE, text |-> text]

\* the target of /proc/self/fd/N for an event in a watched directory
EventPath == Dir1 \o <<"/", "f">>

\* lines 87-100: get_file_path_from_fd; readlink succeeds or fails
get_file_path_from_fd(fd, readlink_ok) ==
    IF BadFd(fd) THEN Null
    ELSE IF ~readlink_ok THEN Null
    ELSE Filled(EventPath)

PATH_MAX == 4096

\* what open and read of /proc/PID/cmdline do when the file holds bytes: open
\* fails (the process is gone), read fails, read returns nothing (a zombie
\* or a kernel thread), or read returns the bytes
ProcReads(bytes) ==
    {[opened |-> FALSE, len |-> -1, bytes |-> << >>],
     [opened |-> TRUE, len |-> -1, bytes |-> << >>],
     [opened |-> TRUE, len |-> 0, bytes |-> << >>],
     [opened |-> TRUE, len |-> Len(bytes), bytes |-> bytes]}

\* read(fd, buffer, buffer_size - 1), line 70
ReadUpTo(r, buffer_size) ==
    IF r.len <= buffer_size - 1 THEN r
    ELSE [r EXCEPT !.len = buffer_size - 1,
                   !.bytes = SubSeq(r.bytes, 1, buffer_size - 1)]

\* lines 76-80: every NUL among the bytes read becomes a space
SpacesForNuls(bytes) == [k \in 1..Len(bytes) |-> IF bytes[k] = NUL THEN " " ELSE bytes[k]]

\* lines 59-85: get_program_cmdline_from_pid
get_program_cmdline_from_pid(r, buffer_size) ==
    IF ~r.opened THEN Null
    ELSE LET got == ReadUpTo(r, buffer_size)
         IN  IF got.len <= 0 THEN Null
             ELSE Filled(SpacesForNuls(got.bytes))

\* the descriptors open after get_program_cmdline_from_pid: the one it
\* opens is the lowest one free, and lines 71 and 74 close it
AfterCmdline(fds, r) ==
    IF ~r.opened THEN fds
    ELSE Close(fds \cup {LowestFree(fds)}, LowestFree(fds))

Unknown == <<"u", "n", "k", "n", "o", "w", "n">>

\* a lookup result printed without the test for NULL
Printed_NoFallback(ret) == ret.text

\* lines 113 and 131: ret ? path : "unknown"
Printed(ret) == IF ret.null THEN Unknown ELSE ret.text

\* lines 116-125: the names printed for the bits of mask, in this order
EventNames(mask) ==
    SelectSeq(<<[bit |-> FAN_OPEN, name |-> "FAN_OPEN"],
                [bit |-> FAN_ACCESS, name |-> "FAN_ACCESS"],
                [bit |-> FAN_MODIFY, name |-> "FAN_MODIFY"],
                [bit |-> FAN_CLOSE_WRITE, name |-> "FAN_CLOSE_WRITE"],
                [bit |-> FAN_CLOSE_NOWRITE, name |-> "FAN_CLOSE_NOWRITE"]>>,
              LAMBDA e : e.bit \in mask)

\* no report: none is being printed
NoReport == [printed |-> FALSE]

\* the close() calls counted for the record being processed
Counted(cs) == [cs EXCEPT ![Len(cs)] = cs[Len(cs)] + 1]

\* event_process without its close(event->fd)
ProcessCloses_Nothing(fds, fd) == fds

\* line 135: close(event->fd)
ProcessCloses(fds, fd) == Close(fds, fd)

\* lines 102-136: event_process prints the three lines of the report and
\* ends with close(event->fd)
EventProcess ==
    /\ pc = "event_process"
    /\ \E readlink_ok \in BOOLEAN, r \in ProcReads(proc_cmdline) :
          LET path_ret == get_file_path_from_fd(EventFd, readlink_ok)
              cmd_ret == get_program_cmdline_from_pid(r, PATH_MAX)
          IN  /\ report' = [printed |-> TRUE,
                            time |-> "ctime",
                            pid |-> EventPidOf,
                            path |-> Printed(path_ret),
                            events |-> EventNames(EventMask),
                            cmdline |-> Printed(cmd_ret),
                            path_ret |-> path_ret,
                            cmd_ret |-> cmd_ret]
              /\ open_fds' = ProcessCloses(AfterCmdline(open_fds, r), EventFd)
    /\ closes' = Counted(closes)
    /\ pc' = "after_process"
    /\ UNCHANGED <<env, parse_vars, signal_fd, fanotify_fd, blocked, pending, early,
                   mon_vars, revents, buffer, length, bytes_read, metadata, yielded,
                   last_read, log, exit_status>>

\* line 378
CloseAgain(fd) == fd > 0

\* metadata->fd read after FAN_EVENT_NEXT has moved metadata on
SecondCloseFd_Advanced ==
    LET next == {k \in 1..Len(buffer) : SumLen(buffer, k - 1) = metadata + EventLen}
    IN  IF next = {} THEN FAN_NOFD ELSE buffer[CHOOSE k \in next : TRUE].fd

\* lines 378-379: metadata->fd, read before line 380 moves metadata
SecondCloseFd == EventFd

\* lines 378-380: the second close, then FAN_EVENT_NEXT(metadata, length);
\* the report of the record is complete
AfterProcess ==
    /\ pc = "after_process"
    /\ IF CloseAgain(SecondCloseFd)
       THEN /\ open_fds' = Close(open_fds, SecondCloseFd)
            /\ closes' = Counted(closes)
       ELSE UNCHANGED <<open_fds, closes>>
    /\ length' = length - EventLen
    /\ metadata' = metadata + EventLen
    /\ pc' = "decode"
    /\ report' = NoReport
    /\ UNCHANGED <<env, parse_vars, signal_fd, fanotify_fd, blocked, pending, early,
                   mon_vars, revents, buffer, bytes_read, yielded,
                   last_read, log, exit_status>>

\* shutdown_fanotify without its close
ShutdownCloses_Nothing(fds) == fds

\* line 151: close(fanotify_fd)
ShutdownCloses(fds) == Close(fds, fanotify_fd)

\* the first path taken for every removal
UnmarkPath_First(k) == monitors[1]

\* line 147: monitors[i].path
UnmarkPath(k) == monitors[k + 1]

(***************************************************************************)
(* main, lines 386-392: shutdown.                                          *)
(***************************************************************************)
\* lines 141-151: one turn of the loop of shutdown_fanotify; its end is
\* free(monitors) and close(fanotify_fd)
ShutdownStep ==
    /\ pc = "shutdown"
    /\ IF MoreToUnmark
       THEN /\ \E ok \in BOOLEAN :
                  /\ ok => \E k \in 1..Len(marks) : marks[k].path = UnmarkPath(mon_i)
                  /\ marks' = IF ok
                              THEN MarkRemove(marks, UnmarkPath(mon_i), UnmarkMask)
                              ELSE marks
            /\ log' = Append(log, EvMark("unmark", mon_i, UnmarkMask,
                                          UnmarkPath(mon_i)))
            /\ mon_i' = mon_i + 1
            /\ UNCHANGED <<pc, open_fds>>
       ELSE /\ open_fds' = ShutdownCloses(open_fds)
            /\ log' = Append(log, Ev("fanotify_close", -1, {}))
            /\ pc' = "shutdown_signals"
            /\ UNCHANGED <<marks, mon_i>>
    /\ UNCHANGED <<env, parse_vars, signal_fd, fanotify_fd, blocked, pending, early,
                   n_monitors, monitors, loop_vars, exit_status>>

\* lines 388-392 and 194-196: shutdown_signals, then return EXIT_SUCCESS
ShutdownSignals ==
    /\ pc = "shutdown_signals"
    /\ open_fds' = Close(open_fds, signal_fd)
    /\ log' = Append(log, Ev("signal_close", -1, {}))
    /\ pc' = "exited"
    /\ exit_status' = "EXIT_SUCCESS"
    /\ UNCHANGED <<env, parse_vars, signal_fd, fanotify_fd, blocked, pending, early,
                   mon_vars, loop_vars>>

Next ==
    \/ Start
    \/ Reset
    \/ ParseAdd
    \/ ParseRemove
    \/ ParseDangling
    \/ ParseEnd
    \/ UsageCheck
    \/ SignalArrives
    \/ InitSignals
    \/ InitFanotify
    \/ MarkStep
    \/ Poll
    \/ ReadSignal
    \/ ReadFanotify
    \/ Decode
    \/ EventProcess
    \/ AfterProcess
    \/ ShutdownStep
    \/ ShutdownSignals

Spec == Init /\ [][Next]_vars

\* get_program_cmdline_from_pid on its own: called once for a process whose
\* /proc/PID/cmdline holds any of the byte sequences
InitCmdline ==
    /\ argv = <<Dir1>>
    /\ proc_cmdline \in ByteSeqs(MaxBytes)
    /\ pc = "cmdline"
    /\ Fresh

\* lines 59-85, with what was read and what is returned kept in report
GetCmdline ==
    /\ pc = "cmdline"
    /\ \E r \in ProcReads(proc_cmdline) :
          /\ report' = [printed |-> FALSE, proc |-> r,
                        cmd_ret |-> get_program_cmdline_from_pid(r, PATH_MAX)]
          /\ open_fds' = AfterCmdline(open_fds, r)
    /\ pc' = "cmdline_done"
    /\ UNCHANGED <<env, parse_vars, signal_fd, fanotify_fd, blocked, pending, early,
                   mon_vars, revents, buffer, length, bytes_read, metadata, yielded,
                   closes, last_read, log, exit_status>>

SpecCmdline == InitCmdline /\ [][GetCmdline]_vars

(***************************************************************************)
(* Properties.                                                             *)
(***************************************************************************)
InBatch == pc \in {"decode", "event_process", "after_process"}

\* the positions in log of the entries named ev
LogAt(ev) == {j \in 1..Len(log) : log[j].ev = ev}

\* the monitors a mark was added for, and the removals attempted for monitor k
Registered == {log[j].k : j \in LogAt("mark")}
UnmarksOf(k) == {j \in LogAt("unmark") : log[j].k = k}

\* C1: every record handed to event_process has had exactly one close() call
\* made on its descriptor by the time the loop asks for the next record.
C1_OneReleasePerRecord ==
    pc = "decode" => \A k \in 1..Len(closes) : closes[k] = 1

\* C2: once a termination signal has been read, the removal of the mark is
\* attempted once for every registered path before the process ends, none
\* was attempted before the signal was read, and this holds whether or not
\* fanotify events were pending at that poll return.
C2_TeardownOncePerPath ==
    /\ \A j \in LogAt("unmark") : \E t \in LogAt("termination") : t < j
    /\ \A k \in Registered : Cardinality(UnmarksOf(k)) <= 1
    /\ (pc \in {"shutdown_signals", "exited"} /\ LogAt("termination") # {})
          => \A k \in Registered : Cardinality(UnmarksOf(k)) = 1

C2_Witness ==
    /\ pc = "exited"
    /\ LogAt("termination") # {}
    /\ revents.fanotify
    /\ Registered = {0, 1}
    /\ \A k \in Registered : Cardinality(UnmarksOf(k)) = 1

\* C3: after a failed read of either channel the process has exited with a
\* failure status, and no mark was removed and no channel closed.
C3_ReadErrorIsFatal ==
    \A ch \in {"signal", "fanotify"} :
        last_read[ch] = "error" =>
            /\ pc = "exited"
            /\ exit_status = "EXIT_FAILURE"
            /\ LogAt("unmark") = {}
            /\ {signal_fd, fanotify_fd} \subseteq open_fds

\* the records of recs that are whole within the first n bytes: the header
\* fits, the declared length is at least the header size and the record ends
\* at or before n, and so for every record before it
WholeCount(recs, n) ==
    LET good(k) == /\ SumLen(recs, k - 1) + FAN_EVENT_METADATA_LEN <= n
                   /\ recs[k].event_len >= FAN_EVENT_METADATA_LEN
                   /\ SumLen(recs, k) <= n
        upto == {k \in 0..Len(recs) : \A j \in 1..k : good(j)}
    IN  CHOOSE k \in upto : \A m \in upto : m <= k

WholeOffsets(recs, n) == [k \in 1..WholeCount(recs, n) |-> SumLen(recs, k - 1)]

\* C4: the records handed to event_process are, in buffer order, the whole
\* records at the start of the buffer: all of them when the loop over the
\* buffer ends, none of them reaching beyond bytes_read.
C4_DecodeYieldsWholeRecords ==
    [][ /\ InBatch =>
            /\ Len(yielded) <= WholeCount(buffer, bytes_read)
            /\ yielded = SubSeq(WholeOffsets(buffer, bytes_read), 1, Len(yielded))
            /\ \A k \in 1..Len(yielded) :
                  yielded[k] + RecordAt(buffer, yielded[k]).event_len <= bytes_read
        /\ (pc = "decode" /\ pc' = "poll") =>
              yielded = WholeOffsets(buffer, bytes_read) ]_vars

\* one whole record was processed and the next one is cut short by bytes_read
C4_Witness ==
    /\ pc = "decode"
    /\ yielded = <<0>>
    /\ Len(buffer) = 2
    /\ buffer[2].event_len >= FAN_EVENT_METADATA_LEN
    /\ length >= FAN_EVENT_METADATA_LEN
    /\ buffer[2].event_len > length

ParseDone == pc \in {"check", "init_signals", "exited"} /\ mask_hist # << >>

\* the directive pairs the loop of lines 274-302 has applied, in order
Applied == [k \in 1..(Len(mask_hist) - 1) |->
               [flag |-> argv[2 * k - 1], name |-> argv[2 * k]]]

\* the table entries whose name is nm or FAN_ followed by it, ignoring case
CategoriesOf(nm) ==
    {fanmask[k].value : k \in {j \in 1..Len(fanmask) :
        \/ StrCaseEq(nm, fanmask[j].name)
        \/ StrCaseEq(nm, Prefix \o fanmask[j].name)}}

Recognised(nm) == CategoriesOf(nm) # {}

\* the directive pairs at the head of args, up to the first argument that is
\* neither +e nor -e or has no name after it
RECURSIVE LeadingPairs(_)
LeadingPairs(args) ==
    IF Len(args) >= 2 /\ Head(args) \in {PlusE, MinusE}
    THEN <<[flag |-> args[1], name |-> args[2]]>> \o LeadingPairs(SubSeq(args, 3, Len(args)))
    ELSE << >>

\* the left-to-right fold of the first n pairs of ds over the mask m
RECURSIVE Fold(_, _, _)
Fold(m, ds, n) ==
    IF n = 0 THEN m
    ELSE LET before == Fold(m, ds, n - 1)
         IN  IF ds[n].flag = PlusE
             THEN before \cup CategoriesOf(ds[n].name)
             ELSE before \ CategoriesOf(ds[n].name)

StartMask == IF Len(argv) >= 1 /\ argv[1] = PlusE THEN {} ELSE BaseMask

\* C5: when every directive names a category, the mask left by the parsing
\* is the fold of the directives, in order, over the base mask, or over the
\* empty mask when the first argument is +e.
C5_MaskIsFold ==
    LET ds == LeadingPairs(argv)
    IN  (ParseDone /\ \A k \in 1..Len(ds) : Recognised(ds[k].name))
           => event_mask = Fold(StartMask, ds, Len(ds))

C5_Witness ==
    LET ds == LeadingPairs(argv)
    IN  /\ pc = "init_signals"
        /\ Len(ds) = 3
        /\ \A k \in 1..Len(ds) : Recognised(ds[k].name)
        /\ ds[1].flag = MinusE /\ ds[2].flag = PlusE /\ ds[3].flag = MinusE
        /\ event_mask = BaseMask \ {FAN_ACCESS, FAN_OPEN}

\* directive k adds a category and directive k + 1 removes the same one
AddThenRemove(k) ==
    /\ k + 1 <= Len(Applied)
    /\ Applied[k].flag = PlusE
    /\ Applied[k + 1].flag = MinusE
    /\ Recognised(Applied[k].name)
    /\ CategoriesOf(Applied[k].name) = CategoriesOf(Applied[k + 1].name)

\* C6 as stated: after Add C then Remove C, bit C has the value it had in the
\* mask the two directives started from.
C6_BitRestored ==
    \A k \in 1..(Len(mask_hist) - 2) :
        AddThenRemove(k) =>
            \A c \in CategoriesOf(Applied[k].name) :
                (c \in mask_hist[k + 2]) <=> (c \in mask_hist[k])

\* C6 amended: after Add C then Remove C, bit C is clear and every other bit
\* has the value it had in the mask the two directives started from.
C6_BitCleared ==
    \A k \in 1..(Len(mask_hist) - 2) :
        AddThenRemove(k) =>
            mask_hist[k + 2] = mask_hist[k] \ CategoriesOf(Applied[k].name)

\* +e OPEN -e OPEN applied to a mask that had OPEN set
C6_Witness ==
    /\ Len(mask_hist) = 4
    /\ AddThenRemove(2)
    /\ FAN_OPEN \in mask_hist[2]
    /\ CategoriesOf(Applied[2].name) = {FAN_OPEN}
    /\ mask_hist[4] = mask_hist[2] \ {FAN_OPEN}

\* C7: the mask is emptied before the first directive exactly when the first
\* argument is +e; no later +e takes a bit away; and +e OPEN as the only
\* directive leaves exactly the OPEN bit.
C7_ResetOnlyByLeadingPlusE ==
    /\ mask_hist # << >> =>
          mask_hist[1] = (IF argv[1] = PlusE THEN {} ELSE BaseMask)
    /\ \A k \in 1..Len(Applied) :
          Applied[k].flag = PlusE => mask_hist[k] \subseteq mask_hist[k + 1]
    /\ (ParseDone /\ LeadingPairs(argv) = <<[flag |-> PlusE, name |-> Open]>>)
          => event_mask = {FAN_OPEN}

C7_Witness ==
    /\ pc = "init_signals"
    /\ argv = <<PlusE, Open, Dir1>>
    /\ mask_hist = <<{}, {FAN_OPEN}>>
    /\ event_mask = {FAN_OPEN}

\* C8: each directive changes the mask by the category whose name is the
\* given name or FAN_ followed by it, ignoring case, and leaves the mask
\* alone when there is no such category.
C8_LookupByNameOrPrefixedName ==
    \A k \in 1..Len(Applied) :
        mask_hist[k + 1] = IF Applied[k].flag = PlusE
                           THEN mask_hist[k] \cup CategoriesOf(Applied[k].name)
                           ELSE mask_hist[k] \ CategoriesOf(Applied[k].name)

\* the arguments left after the leading directive pairs and a dangling +e / -e
RECURSIVE Directories(_)
Directories(args) ==
    IF args = << >> THEN << >>
    ELSE IF Head(args) \in {PlusE, MinusE}
         THEN IF Len(args) >= 2 THEN Directories(SubSeq(args, 3, Len(args))) ELSE << >>
         ELSE args

\* C9: a command line without a directory never gets past the parsing: no
\* descriptor is opened, no signal blocked, no mark added, the check of line
\* 306 fails, and the process ends with the usage text and EXIT_FAILURE.
C9_NoDirectoryIsUsageError ==
    Directories(argv) = << >> =>
        /\ pc \in {"start", "reset", "parse", "check", "exited", "killed"}
        /\ signal_fd = -1 /\ fanotify_fd = -1 /\ open_fds = {0, 1, 2}
        /\ ~blocked
        /\ marks = << >>
        /\ pc = "check" => argc <= i
        /\ pc = "exited" => /\ exit_status = "EXIT_FAILURE"
                            /\ log = <<Ev("usage", -1, {})>>

\* the only directory was taken as the name of a directive
C9_Witness ==
    /\ argv = <<PlusE, Dir1>>
    /\ pc = "exited"
    /\ exit_status = "EXIT_FAILURE"
    /\ log = <<Ev("usage", -1, {})>>

\* the life-cycle calls of a run that ends with EXIT_SUCCESS, by name and
\* monitor
GracefulLog ==
    <<[ev |-> "signal_open", k |-> -1], [ev |-> "fanotify_open", k |-> -1]>>
    \o [k \in 1..n_monitors |-> [ev |-> "mark", k |-> k - 1]]
    \o <<[ev |-> "running", k |-> -1]>>

\* C10: a run that ends with EXIT_SUCCESS has opened the signal descriptor,
\* opened the fanotify descriptor, added a mark for every path, entered the
\* loop, read a termination signal, attempted the removal of every mark,
\* closed the fanotify descriptor and closed the signal descriptor, in that
\* order and each once; both descriptors stay open until then.
C10_GracefulOrder ==
    /\ (Running \/ pc = "shutdown") => {signal_fd, fanotify_fd} \subseteq open_fds
    /\ pc = "shutdown_signals" => signal_fd \in open_fds /\ fanotify_fd \notin open_fds
    /\ (pc = "exited" /\ exit_status = "EXIT_SUCCESS") =>
          /\ \E signo \in SigMask :
                [j \in 1..Len(log) |->
                    [ev |-> log[j].ev,
                     k |-> IF log[j].ev = "termination" THEN signo ELSE log[j].k]]
                = GracefulLog
                  \o <<[ev |-> "termination", k |-> signo]>>
                  \o [k \in 1..n_monitors |-> [ev |-> "unmark", k |-> k - 1]]
                  \o <<[ev |-> "fanotify_close", k |-> -1],
                       [ev |-> "signal_close", k |-> -1]>>
          /\ n_monitors = Len(Directories(argv))
          /\ signal_fd \notin open_fds /\ fanotify_fd \notin open_fds

\* a graceful run over two paths in which a removal failed
C10_Witness ==
    /\ pc = "exited"
    /\ exit_status = "EXIT_SUCCESS"
    /\ n_monitors = 2
    /\ marks # << >>

(***************************************************************************)
(* Claims about the report of a record and about the command line.         *)
(***************************************************************************)
\* the step taken is event_process, or the step after it up to the loop test
Reports == pc = "event_process" /\ pc' # pc
Advances == pc = "after_process" /\ pc' # pc

\* C11: a path or a command line that cannot be resolved ends nothing. The
\* report of the record is printed with its time, process id, path, event
\* names and command line, "unknown" standing for each lookup that returned
\* NULL, the process goes on running, and the loop moves to the next record.
C11_LookupFailureDegrades ==
    [][/\ Reports =>
            /\ pc' = "after_process"
            /\ exit_status' = "none"
            /\ report'.printed
            /\ report'.time = "ctime"
            /\ report'.pid = EventPidOf
            /\ report'.events = EventNames(EventMask)
            /\ report'.path = IF report'.path_ret.null THEN Unknown
                              ELSE report'.path_ret.text
            /\ report'.cmdline = IF report'.cmd_ret.null THEN Unknown
                                 ELSE report'.cmd_ret.text
            /\ BadFd(EventFd) => report'.path_ret.null
       /\ Advances =>
            /\ pc' = "decode"
            /\ exit_status' = "none"
            /\ metadata' = metadata + EventLen]_vars

\* a record with a descriptor whose path and command line both went unresolved
C11_Witness ==
    /\ pc = "after_process"
    /\ ~BadFd(EventFd)
    /\ report.path_ret.null
    /\ report.cmd_ret.null
    /\ report.path = Unknown
    /\ report.cmdline = Unknown

\* bytes without the NUL that ends its last argument
TrimTrailing(bytes) ==
    IF bytes # << >> /\ bytes[Len(bytes)] = NUL
    THEN SubSeq(bytes, 1, Len(bytes) - 1) ELSE bytes

\* each NUL of bytes written as one space
Spaced(bytes) == [k \in 1..Len(bytes) |-> IF bytes[k] = NUL THEN " " ELSE bytes[k]]

\* C12: the command line returned for the bytes read is those bytes with the
\* trailing NUL removed and every other NUL written as one space, so it does
\* not end in a space that stands for the trailing NUL; a read that fails or
\* returns nothing gives NULL.
C12_TrailingSeparatorTrimmed ==
    pc = "cmdline_done" =>
        IF report.proc.opened /\ report.proc.len > 0
        THEN /\ ~report.cmd_ret.null
             /\ report.cmd_ret.text = Spaced(TrimTrailing(report.proc.bytes))
        ELSE report.cmd_ret.null

(***************************************************************************)
(* Claims about start-up, the signals and the watched paths.               *)
(***************************************************************************)
\* the paths of the marks the kernel holds
MarkedPaths == {marks[k].path : k \in 1..Len(marks)}

\* C13: once fanotify_mark has failed for a path the process has ended with
\* EXIT_FAILURE and has never entered the loop; the marks added are those of
\* the paths before the failing one and no others, none of them has been
\* removed, and neither the fanotify descriptor nor the signal descriptor
\* has been closed.
C13_MarkFailureAbortsStartup ==
    LogAt("mark_failed") # {} =>
        /\ pc = "exited"
        /\ exit_status = "EXIT_FAILURE"
        /\ log[Len(log)].ev = "mark_failed"
        /\ LogAt("running") = {}
        /\ mon_i < n_monitors
        /\ Registered = 0..(mon_i - 1)
        /\ LogAt("unmark") = {}
        /\ MarkedPaths = {monitors[k + 1] : k \in Registered}
        /\ \A k \in 1..Len(marks) : marks[k].mask = event_mask
        /\ LogAt("fanotify_close") = {} /\ LogAt("signal_close") = {}
        /\ {signal_fd, fanotify_fd} \subseteq open_fds

\* the second of two paths could not be marked: the first one stays marked
C13_Witness ==
    /\ LogAt("mark_failed") # {}
    /\ n_monitors = 2
    /\ Registered = {0}
    /\ Len(marks) = 1
    /\ pc = "exited"
    /\ {signal_fd, fanotify_fd} \subseteq open_fds

\* the monitors a removal was attempted for
Unregistered == {log[j].k : j \in LogAt("unmark")}

\* C14: once the signal descriptor is open no SIGINT or SIGTERM kills the
\* process, and a pending one leaves the pending set only by being read from
\* the descriptor. One raised while the marks are being added is still
\* pending when the loop is entered; the first return of poll goes to the
\* read of the signal descriptor before anything is read from fanotify, the
\* signal read ends the loop, and the run that follows removes the mark of
\* every path that was registered.
C14_BlockedSignalsReachTheLoop ==
    [][/\ signal_fd # -1 => pc' # "killed"
       /\ \/ pending \subseteq pending'
          \/ /\ pc = "read_signal"
             /\ last_read'.signo \in pending
             /\ pending' = pending \ {last_read'.signo}
       /\ (pc = "poll" /\ pending # {} /\ pc' \notin {"poll", "exited"}) =>
             pc' = "read_signal"
       /\ (pc = "read_signal" /\ pc' \notin {"read_signal", "exited"}) =>
             /\ pc' = "shutdown"
             /\ last_read'.signo \in SigMask
             /\ Registered = 0..(n_monitors - 1)
             /\ mon_i' = 0
       /\ (early' # {} /\ Running') =>
             /\ early' \subseteq pending'
             /\ pc' \in {"poll", "read_signal"}
             /\ last_read'.fanotify = "none"
       /\ (early' # {} /\ pc' \in {"shutdown", "shutdown_signals"}) =>
             /\ last_read'.fanotify = "none"
             /\ last_read'.signo \in SigMask
             /\ Unregistered' \subseteq Registered'
       /\ (early' # {} /\ pc' = "exited" /\ exit_status' = "EXIT_SUCCESS") =>
             /\ last_read'.fanotify = "none"
             /\ Unregistered' = Registered'
             /\ Registered' = 0..(n_monitors' - 1)]_vars

\* SIGINT was raised between the marks of two paths; the run ended with both
\* marks removed and nothing read from fanotify
C14_Witness ==
    /\ pc = "exited"
    /\ exit_status = "EXIT_SUCCESS"
    /\ early = {SIGINT}
    /\ n_monitors = 2
    /\ Unregistered = {0, 1}
    /\ last_read = [signal |-> "ok", fanotify |-> "none", signo |-> SIGINT]

(***************************************************************************)
(* The loop under fair scheduling: the program takes its next step when it *)
(* has one, and poll returns when a signal is pending. Nothing is assumed  *)
(* of the signals raised or of the events that arrive.                     *)
(***************************************************************************)
ProgramStep ==
    \/ Start \/ Reset \/ ParseAdd \/ ParseRemove \/ ParseDangling \/ ParseEnd
    \/ UsageCheck \/ InitSignals \/ InitFanotify \/ MarkStep
    \/ (pending # {} /\ Poll)
    \/ ReadSignal \/ ReadFanotify \/ Decode \/ EventProcess \/ AfterProcess
    \/ ShutdownStep \/ ShutdownSignals

\* a signal other than the two of lines 354-355
SIGUSR1 == 10

\* the read of line 345 taken as able to return a record of any signal: the
\* code does not rely on signalfd handing out only the signals of its mask
ReadAnySignal == ReadSignalFrom((pending \cap SigMask) \cup {SIGUSR1})

NextAnySignal ==
    \/ Start \/ Reset \/ ParseAdd \/ ParseRemove \/ ParseDangling \/ ParseEnd
    \/ UsageCheck \/ SignalArrives \/ InitSignals \/ InitFanotify \/ MarkStep
    \/ Poll \/ ReadAnySignal \/ ReadFanotify \/ Decode \/ EventProcess
    \/ AfterProcess \/ ShutdownStep \/ ShutdownSignals

\* command lines that take main through each of its branches
ArgvFair ==
    {<<Dir1>>, <<Dir1, Dir2>>, <<PlusE, Open, MinusE, Access, Dir1>>,
     <<MinusE, Open, PlusE>>, << >>}

InitFair == InitWith(ArgvFair)

FairSpec == InitFair /\ [][Next]_vars /\ WF_vars(ProgramStep)

SpecAnySignal == InitFair /\ [][NextAnySignal]_vars

\* the process returned EXIT_SUCCESS from main
Terminated == pc = "exited" /\ exit_status = "EXIT_SUCCESS"

\* poll or the read of the signal descriptor failed
ChannelError == LogAt("poll_failed") # {} \/ LogAt("signal_read_failed") # {}

\* C15: a SIGINT or SIGTERM pending while the loop runs is read at the next
\* return of poll, and unless poll or the signal read fails the process then
\* reaches its return of EXIT_SUCCESS, however often the fanotify descriptor
\* is readable.
C15_TerminationNotStarved ==
    /\ (Running /\ pending # {}) ~> (Terminated \/ ChannelError)
    /\ [][(pc = "poll" /\ pending # {} /\ pc' \notin {"poll", "exited"}) =>
             pc' = "read_signal"]_vars

\* a signal raised after events had been read ended the run, at a return of
\* poll that had the fanotify descriptor readable as well
C15_Witness ==
    /\ Terminated
    /\ early = {}
    /\ last_read.fanotify = "ok"
    /\ revents = [signal |-> TRUE, fanotify |-> TRUE]

\* the paths of the entries of log named ev, in the order of the calls
PathsOf(ev) ==
    LET es == SelectSeq(log, LAMBDA e : e.ev = ev)
    IN  [j \in 1..Len(es) |-> es[j].path]

\* main is past the check of line 306 and the loop has not begun
Initializing == pc \in {"init_signals", "init_fanotify", "mark"}

\* C16: the paths marked are the arguments after the leading +e/-e pairs,
\* in the order and number given, whatever the number of pairs; there is at
\* least one whenever start-up begins; and the paths of the removals at
\* shutdown are the paths marked, in the same order.
C16_WatchSetIsTheDirectories ==
    /\ (Initializing \/ Running) => Directories(argv) # << >>
    /\ fanotify_fd # -1 =>
          /\ n_monitors = Len(Directories(argv))
          /\ monitors = SubSeq(Directories(argv), 1, Len(monitors))
          /\ PathsOf("mark") = SubSeq(Directories(argv), 1, Len(PathsOf("mark")))
    /\ LogAt("running") # {} => PathsOf("mark") = Directories(argv)
    /\ PathsOf("unmark") = SubSeq(PathsOf("mark"), 1, Len(PathsOf("unmark")))
    /\ (pc = "shutdown_signals" \/ Terminated) => PathsOf("unmark") = PathsOf("mark")

\* two pairs, then two directories: both marked, both removed
C16_Witness ==
    /\ Terminated
    /\ Len(LeadingPairs(argv)) = 2
    /\ PathsOf("mark") = <<Dir1, Dir2>>
    /\ PathsOf("unmark") = <<Dir1, Dir2>>

\* event_mask as the parse loop left it
ParsedMask == mask_hist[Len(mask_hist)]

\* C17: event_mask keeps the value the parse loop left in it; every mark is
\* added with that value, and every removal is made for a path marked
\* earlier and with the mask that mark was added with.
C17_OneMaskForMarkAndUnmark ==
    /\ (mask_hist # << >> /\ pc \notin {"parse"}) => event_mask = ParsedMask
    /\ \A j \in LogAt("mark") : log[j].mask = ParsedMask
    /\ \A j \in LogAt("unmark") :
          \E m \in LogAt("mark") :
             /\ m < j
             /\ log[m].k = log[j].k
             /\ log[m].path = log[j].path
             /\ log[m].mask = log[j].mask

\* a run with a mask other than the default that removed the marks of two
\* paths
C17_Witness ==
    /\ pc = "shutdown_signals"
    /\ event_mask # BaseMask
    /\ Cardinality(LogAt("unmark")) = 2
    /\ \A j \in LogAt("unmark") : log[j].mask = event_mask

\* the signal read returned a record that is neither SIGINT nor SIGTERM
ReadsUnexpected ==
    /\ pc = "read_signal"
    /\ pc' # pc
    /\ last_read'.signal # "error"
    /\ last_read'.signo \notin {SIGINT, SIGTERM}

\* C18: a record read from the signal descriptor that is neither SIGINT nor
\* SIGTERM is reported and nothing more: the process goes on, no mark is
\* removed and no descriptor closed, the fanotify descriptor is read next
\* when the same return of poll had it readable, and the loop is back at
\* poll otherwise and after that read's records.
C18_UnexpectedSignalIgnored ==
    [][/\ ReadsUnexpected =>
            /\ last_read'.signal = "unexpected"
            /\ pc' = IF revents.fanotify THEN "read_fanotify" ELSE "poll"
            /\ exit_status' = "none"
            /\ log' = log
            /\ marks' = marks
            /\ open_fds' = open_fds
            /\ revents' = revents
       /\ (pc = "read_fanotify" /\ pc' # pc /\ last_read.signal = "unexpected") =>
            /\ pc' \in {"decode", "poll"}
            /\ last_read'.fanotify \in {"ok", "error"}
            /\ pc' = "decode" <=> length' > 0
       /\ (pc = "decode" /\ pc' # pc) => pc' \in {"event_process", "poll"}]_vars

\* the records of a return of poll that also had a signal other than SIGINT
\* and SIGTERM to read are being decoded
C18_Witness ==
    /\ pc = "decode"
    /\ revents = [signal |-> TRUE, fanotify |-> TRUE]
    /\ last_read.signal = "unexpected"
    /\ last_read.fanotify = "ok"
    /\ Len(buffer) = 2
    /\ exit_status = "none"

\* what a read of the fanotify descriptor and the handling of its records
\* change
fanotify_vars == <<buffer, length, bytes_read, metadata, yielded, closes, report>>

\* C19: at a return of poll with both descriptors readable the signal
\* descriptor is read first, and when the signal read is SIGINT or SIGTERM
\* the loop is left at once: the fanotify descriptor is not read, no record
\* is handed to event_process, no record's descriptor is closed, and from
\* there on only the teardown runs.
C19_TerminationBeforeEvents ==
    [][/\ (pc = "poll" /\ pc' \notin {"poll", "exited"} /\ revents'.signal) =>
             pc' = "read_signal"
       /\ (pc = "read_signal" /\ last_read'.signal # "error"
              /\ last_read'.signo \in SigMask /\ pc' # pc) =>
             /\ pc' = "shutdown"
             /\ UNCHANGED fanotify_vars
             /\ buffer = << >>
             /\ last_read'.fanotify = last_read.fanotify
             /\ open_fds' = open_fds
       /\ pc \in {"shutdown", "shutdown_signals"} =>
             /\ pc' \in {"shutdown", "shutdown_signals", "exited"}
             /\ UNCHANGED fanotify_vars
             /\ last_read' = last_read
             /\ open_fds \ open_fds' \subseteq {fanotify_fd, signal_fd}]_vars

\* SIGTERM was read at a return of poll that had events to read as well, and
\* the run ended without reading them
C19_Witness ==
    /\ Terminated
    /\ revents = [signal |-> TRUE, fanotify |-> TRUE]
    /\ last_read = [signal |-> "ok", fanotify |-> "none", signo |-> SIGTERM]
    /\ buffer = << >>

(***************************************************************************)
(* Claims about the descriptors of the process.                            *)
(***************************************************************************)
\* the descriptors of the records of buffer that start at offset off or later
LaterFds(off) ==
    {buffer[k].fd : k \in {j \in 1..Len(buffer) : SumLen(buffer, j - 1) >= off}}
    \ {FAN_NOFD}

\* the descriptors that are not a record's: stdin, stdout, stderr and the
\* two channels
ProcessFds == {0, 1, 2, signal_fd, fanotify_fd}

\* C20: while the loop runs, the only descriptor that is ever closed is the
\* one of the record being processed, closed by event_process. When main
\* makes its own close on that number the number is free, nothing having
\* been opened since, so that close changes nothing; the two channel
\* descriptors and the descriptors of the records not yet processed are
\* open throughout.
C20_OnlyTheRecordsDescriptorIsReleased ==
    [][Running =>
          /\ ProcessFds \subseteq open_fds
          /\ Running' => ProcessFds \subseteq open_fds'
          /\ pc # "event_process" => open_fds \subseteq open_fds'
          /\ pc \in {"decode", "event_process"} => LaterFds(metadata) \subseteq open_fds
          /\ (pc = "event_process" /\ pc' # pc) =>
                /\ EventFd \notin ProcessFds
                /\ open_fds' = open_fds \ {EventFd}
                /\ LaterFds(metadata + EventLen) \subseteq open_fds'
          /\ pc = "after_process" =>
                /\ EventFd > 0 => EventFd \notin open_fds
                /\ LaterFds(metadata + EventLen) \subseteq open_fds
                /\ open_fds' = open_fds]_vars

\* the first of two records has had both of its close calls; the descriptor
\* of the second is still open
C20_Witness ==
    /\ pc = "decode"
    /\ Len(buffer) = 2
    /\ closes = <<2>>
    /\ buffer[1].fd > 0 /\ buffer[1].fd \notin open_fds
    /\ buffer[2].fd > 0 /\ buffer[2].fd \in open_fds
    /\ {signal_fd, fanotify_fd} \subseteq open_fds

=============================================================================
